---------------------------- MODULE Spec2Model ----------------------------
(***************************************************************************)
(* A model of the RPA-PORT customs scanner scripts.                        *)
(*                                                                         *)
(* The repository holds several revisions of one ingestion script:         *)
(*   - the manifest runScanner        (src/scanner.js 671-912, axios)      *)
(*   - the DOM-scan runScanner        (src/scanner.js 1-271, puppeteer,    *)
(*                                     download directory)                 *)
(*   - the interception runScanner    (src/unnamed/part_000, URL buffer)   *)
(*   - run                            (src/unnamed/part_001, body buffer)  *)
(*   - the chapter scans and main     (src/scanner.js 333-669)             *)
(*                                                                         *)
(* Strings are sequences of characters.  An ASCII character is the         *)
(* one-character string; a Hebrew letter is the string of its name         *)
(* ("tav", "vav", ...), so that every character is one element.            *)
(***************************************************************************)
EXTENDS Integers, Sequences, FiniteSets, TLC

VARIABLES
  \* ---- the run loops (Spec) ----
  variant,     \* which script runs: "manifest" | "domscan" | "intercept" | "run"
  pc,          \* position of the script's single thread of control
  i,           \* index of the candidate being processed (1-based)
  uploaded,    \* counter `uploaded`
  skipped,     \* counter `skipped`
  failed,      \* counter `failed`
  files,       \* the store's `files` collection, in insertion order
  buf,         \* the payload held for the current candidate (fileBuffer / pdfBuffer)
  cur,         \* what was done for the current candidate so far
  exitCode,    \* "none" while running, then the code given to process.exit
  items,       \* the candidates of the run, in the order the loop takes them
  before,      \* the `files` collection as the run found it
  logs,        \* the store's `scanner_logs` collection
  browser,     \* "none" before the launch, then "open", then "closed"
  pageUrl,     \* where the driving page is: "origin" | "away" | "closed"
  pdfUrls,     \* the URL buffer of the interception script
  pdfUrl,      \* the URL taken from the buffer for the download ("none" outside it)
  tabs,        \* the tabs opened beside the driving page, oldest first: "blank" for
               \* a tab at about:blank, "doc" for a tab at a document's URL
  scanIdx,     \* the tab scan's position in browser.pages()
  found,       \* the tab scan's flag `found`
  dir,         \* the sizes of the .pdf files in the download directory
  \* ---- pure functions under test (SpecClassify, SpecCodes, SpecDownload) ----
  fn,          \* the function applied: "none" or its name
  arg,         \* its input
  res,         \* its result ("none" before the call)
  applied      \* whether the function has been applied

runVars  == <<variant, pc, i, uploaded, skipped, failed, files, buf, cur, exitCode,
             items, before, logs, browser, pageUrl, pdfUrls, pdfUrl, tabs, scanIdx, found, dir>>
pureVars == <<fn, arg, res, applied>>
vars     == <<runVars, pureVars>>
browserVars == <<browser, pageUrl, pdfUrls, pdfUrl, tabs, scanIdx, found, dir>>
fixedVars == <<variant, items, before, pureVars>>

-----------------------------------------------------------------------------
(* Characters and strings *)

Upper == <<"A","B","C","D","E","F","G","H","I","J","K","L","M",
           "N","O","P","Q","R","S","T","U","V","W","X","Y","Z">>
Lower == <<"a","b","c","d","e","f","g","h","i","j","k","l","m",
           "n","o","p","q","r","s","t","u","v","w","x","y","z">>
Digits == {"0","1","2","3","4","5","6","7","8","9"}
\* U+05D0 .. U+05EA, the range of the class [א-ת]
HebrewLetters == {"alef","bet","gimel","dalet","he","vav","zayin","het","tet","yod",
                  "finalkaf","kaf","lamed","finalmem","mem","finalnun","nun","samekh",
                  "ayin","finalpe","pe","finaltsadi","tsadi","qof","resh","shin","tav"}
Whitespace == {" ", "\t", "\n"}

Range(s) == {s[k] : k \in DOMAIN s}

\* String.prototype.toLowerCase, character by character
ToLowerChar(c) ==
  IF \E k \in DOMAIN Upper : Upper[k] = c
  THEN Lower[CHOOSE k \in DOMAIN Upper : Upper[k] = c]
  ELSE c

ToUpperChar(c) ==
  IF \E k \in DOMAIN Lower : Lower[k] = c
  THEN Upper[CHOOSE k \in DOMAIN Lower : Lower[k] = c]
  ELSE c

toLowerCase(s) == [k \in DOMAIN s |-> ToLowerChar(s[k])]
toUpperCase(s) == [k \in DOMAIN s |-> ToUpperChar(s[k])]

\* String.prototype.includes
includes(s, sub) ==
  \E k \in 0..(Len(s) - Len(sub)) : SubSeq(s, k + 1, k + Len(sub)) = sub

\* The keywords of the classifiers
kwTosefet    == <<"tav","vav","samekh","pe","tav">>                 \* 'תוספת'
kwSupplement == <<"s","u","p","p","l","e","m","e","n","t">>
kwWto        == <<"w","t","o">>
kwNohal      == <<"nun","vav","he","lamed">>                        \* 'נוהל'
kwPkuda      == <<"pe","qof","vav","dalet","he">>                   \* 'פקודה'
kwProcedure  == <<"p","r","o","c","e","d","u","r","e">>
kwHeskem     == <<"he","samekh","kaf","finalmem">>                  \* 'הסכם'
kwAgreement  == <<"a","g","r","e","e","m","e","n","t">>
kwFta        == <<"f","t","a">>

Categories == {"supplement", "procedure", "agreement", "tariff"}

-----------------------------------------------------------------------------
(* detectCategory, the three revisions *)

\* detectCategoryDom with the procedure test moved before the supplement test
detectCategoryDom_ProcedureFirst(fileName) ==
  LET name == toLowerCase(fileName) IN
  IF includes(name, kwNohal) \/ includes(name, kwPkuda)
    THEN "procedure"
  ELSE IF includes(name, kwTosefet) \/ includes(name, kwSupplement) \/ includes(name, kwWto)
    THEN "supplement"
  ELSE IF includes(name, kwHeskem) \/ includes(name, kwAgreement)
    THEN "agreement"
  ELSE "tariff"

\* src/scanner.js 23-29 (the DOM-scan script)
detectCategoryDom(fileName) ==
  LET name == toLowerCase(fileName) IN
  IF includes(name, kwTosefet) \/ includes(name, kwSupplement) \/ includes(name, kwWto)
    THEN "supplement"
  ELSE IF includes(name, kwNohal) \/ includes(name, kwPkuda)
    THEN "procedure"
  ELSE IF includes(name, kwHeskem) \/ includes(name, kwAgreement)
    THEN "agreement"
  ELSE "tariff"

\* src/scanner.js 694-707 (the manifest script): returns {category, label}
detectCategoryManifest(fileName) ==
  LET name == toLowerCase(fileName) IN
  IF includes(name, kwTosefet) \/ includes(name, kwSupplement) \/ includes(name, kwWto)
    THEN [category |-> "supplement", label |-> "tosefet"]
  ELSE IF includes(name, kwNohal) \/ includes(name, kwProcedure) \/ includes(name, kwPkuda)
    THEN [category |-> "procedure", label |-> "nehalim"]
  ELSE IF includes(name, kwHeskem) \/ includes(name, kwAgreement) \/ includes(name, kwFta)
    THEN [category |-> "agreement", label |-> "heskem"]
  ELSE [category |-> "tariff", label |-> "taarif"]

\* detectCategoryIntercept without its final `return 'tariff'`
detectCategoryIntercept_NoDefault(fileName) ==
  LET name == toLowerCase(fileName) IN
  IF includes(name, kwTosefet) \/ includes(name, kwWto)
    THEN "supplement"
  ELSE IF includes(name, kwNohal) \/ includes(name, kwPkuda)
    THEN "procedure"
  ELSE "undefined"

\* src/unnamed/part_000 25-30 (the interception script; part_002 21-26 is the same)
detectCategoryIntercept(fileName) ==
  LET name == toLowerCase(fileName) IN
  IF includes(name, kwTosefet) \/ includes(name, kwWto)
    THEN "supplement"
  ELSE IF includes(name, kwNohal) \/ includes(name, kwPkuda)
    THEN "procedure"
  ELSE "tariff"

ClassifierVariants == {"domscan", "manifest", "intercept"}

\* The category a script's classifier gives a file name
detectCategory(v, fileName) ==
  CASE v = "domscan"   -> detectCategoryDom(fileName)
    [] v = "manifest"  -> detectCategoryManifest(fileName).category
    [] v = "intercept" -> detectCategoryIntercept(fileName)


\* The keyword table of each revision, in the order the code tests it
keywordTable(v) ==
  CASE v = "domscan"   -> [supplement |-> {kwTosefet, kwSupplement, kwWto},
                           procedure  |-> {kwNohal, kwPkuda},
                           agreement  |-> {kwHeskem, kwAgreement}]
    [] v = "manifest"  -> [supplement |-> {kwTosefet, kwSupplement, kwWto},
                           procedure  |-> {kwNohal, kwProcedure, kwPkuda},
                           agreement  |-> {kwHeskem, kwAgreement, kwFta}]
    [] v = "intercept" -> [supplement |-> {kwTosefet, kwWto},
                           procedure  |-> {kwNohal, kwPkuda},
                           agreement  |-> {}]

-----------------------------------------------------------------------------
(* File names given to the classifier *)

sSectionI  == <<"S","e","c","t","i","o","n","_","I",".","p","d","f">>
sDotPdf    == <<".","p","d","f">>
\* "תוספת שלישית WTO.pdf"
sExampleSupplement ==
  kwTosefet \o <<" ","shin","lamed","yod","shin","yod","tav"," ","W","T","O">> \o sDotPdf
\* "נוהל יבוא.pdf"
sExampleProcedure == kwNohal \o <<" ","yod","bet","vav","alef">> \o sDotPdf
\* "הסכם סחר.pdf"
sExampleAgreement == kwHeskem \o <<" ","samekh","het","resh">> \o sDotPdf

\* The pieces the checked names are made of: every keyword, in mixed case,
\* a name without any keyword, and a separator
NameChunks ==
  << kwTosefet, <<"S","u","p","p","l","e","m","e","n","t">>, <<"W","T","O">>,
     kwNohal, kwPkuda, <<"P","r","o","c","e","d","u","r","e">>,
     kwHeskem, <<"A","g","r","e","e","m","e","n","t">>, <<"F","T","A">>,
     sSectionI, <<" ">> >>

MaxChunks == 3

RECURSIVE ChunkNames(_)
\* All concatenations of at most n chunks
ChunkNames(n) ==
  IF n = 0 THEN {<<>>}
  ELSE LET shorter == ChunkNames(n - 1) IN
       shorter \cup {s \o NameChunks[k] : s \in shorter, k \in DOMAIN NameChunks}

FileNames ==
  ChunkNames(MaxChunks) \cup {sExampleSupplement, sExampleProcedure, sExampleAgreement}

-----------------------------------------------------------------------------
(* The run loops are idle while a pure function is exercised, and conversely *)

RunIdle ==
  /\ variant = "none" /\ pc = "idle" /\ i = 0
  /\ uploaded = 0 /\ skipped = 0 /\ failed = 0
  /\ files = <<>> /\ buf = "none" /\ cur = "none" /\ exitCode = "none" /\ before = <<>>
  /\ items = <<>> /\ logs = <<>>
  /\ browser = "none" /\ pageUrl = "origin" /\ pdfUrls = <<>> /\ pdfUrl = "none" /\ tabs = <<>> /\ scanIdx = 0
  /\ found = FALSE /\ dir = {}

PureIdle == fn = "none" /\ arg = "none" /\ res = "none" /\ applied = FALSE

-----------------------------------------------------------------------------
(* SpecClassify: detectCategory applied to a file name *)

InitClassify ==
  /\ RunIdle
  /\ fn = "detectCategory"
  /\ arg \in [v : ClassifierVariants, name : FileNames]
  /\ res = "none"
  /\ applied = FALSE

Classify ==
  /\ fn = "detectCategory" /\ ~applied
  /\ res' = detectCategory(arg.v, arg.name)
  /\ applied' = TRUE
  /\ UNCHANGED <<runVars, fn, arg>>

NextClassify == Classify

SpecClassify == InitClassify /\ [][NextClassify]_vars

Classified == fn = "detectCategory" /\ applied


\* Whether a name holds one of the keywords, letter case ignored
Holds(name, keywords) == \E kw \in keywords : includes(toLowerCase(name), kw)

\* C7: detectCategory is total: for every file name, the empty one included, each
\* revision returns one of the four categories, and the empty name gives tariff.
Thm_C7_ClassifyTotal ==
  Classified => /\ res \in Categories
                /\ (arg.name = <<>> => res = "tariff")

Wit_C7_EmptyName == Classified /\ arg.name = <<>> /\ res = "tariff"

\* C8: in every revision of detectCategory, the spec's supplement example is
\* supplement, its procedure example is procedure, a name holding an agreement
\* marker ('heskem', "agreement", "fta") and no earlier marker is agreement, and
\* "Section_I.pdf" is tariff.
CE_C8_EveryVariantKnowsEveryMarker ==
  Classified =>
    /\ (arg.name = sExampleSupplement => res = "supplement")
    /\ (arg.name = sExampleProcedure => res = "procedure")
    /\ (arg.name = sSectionI => res = "tariff")
    /\ ( ( /\ Holds(arg.name, {kwHeskem, kwAgreement, kwFta})
           /\ ~Holds(arg.name, {kwTosefet, kwSupplement, kwWto})
           /\ ~Holds(arg.name, {kwNohal, kwProcedure, kwPkuda}) )
         => res = "agreement" )

\* C9: detectCategory tests its keyword table in order, first match winning, and
\* ignores letter case: a name holding a supplement keyword is supplement whatever
\* else it holds, a name holding a procedure keyword and no supplement keyword is
\* procedure whatever agreement keyword it holds, and the name in upper case and the
\* name in lower case get the category of the name itself.
Thm_C9_OrderedCaseInsensitive ==
  Classified =>
    LET t == keywordTable(arg.v) IN
    /\ (Holds(arg.name, t.supplement) => res = "supplement")
    /\ (Holds(arg.name, t.procedure) /\ ~Holds(arg.name, t.supplement)
          => res = "procedure")
    /\ detectCategory(arg.v, toUpperCase(arg.name)) = res
    /\ detectCategory(arg.v, toLowerCase(arg.name)) = res

\* a name with a supplement, a procedure and an agreement keyword, in mixed case
Wit_C9_AllThreeMarkers ==
  /\ Classified /\ res = "supplement"
  /\ Holds(arg.name, keywordTable(arg.v).supplement)
  /\ Holds(arg.name, keywordTable(arg.v).procedure)
  /\ Holds(arg.name, keywordTable(arg.v).agreement)
  /\ arg.name # toLowerCase(arg.name)


-----------------------------------------------------------------------------
(* parseHSCodes (src/scanner.js 369-386) *)

IsDigit(c) == c \in Digits

\* The length of the match of /(\d{10})\/?\d?/ that starts at position p of html,
\* 0 when there is none: ten digits, then greedily a slash, then greedily a digit
hsPatternAt(html, p) ==
  IF p + 9 <= Len(html) /\ \A k \in p..(p + 9) : IsDigit(html[k])
  THEN LET afterSlash == IF p + 10 <= Len(html) /\ html[p + 10] = "/"
                         THEN p + 11 ELSE p + 10
           afterDigit == IF afterSlash <= Len(html) /\ IsDigit(html[afterSlash])
                         THEN afterSlash + 1 ELSE afterSlash
       IN  afterDigit - p
  ELSE 0

RECURSIVE matchFrom(_, _)
\* html.match(hsPattern) with the g flag: every match, left to right, the search
\* resuming where the last match ended
matchFrom(html, p) ==
  IF p > Len(html) THEN <<>>
  ELSE LET n == hsPatternAt(html, p) IN
       IF n = 0 THEN matchFrom(html, p + 1)
       ELSE <<SubSeq(html, p, p + n - 1)>> \o matchFrom(html, p + n)

\* code.replace(/\/\d$/, ''): a final slash and digit are removed
stripSuffix(code) ==
  IF Len(code) >= 2 /\ code[Len(code) - 1] = "/" /\ IsDigit(code[Len(code)])
  THEN SubSeq(code, 1, Len(code) - 2)
  ELSE code

RECURSIVE collectSeen(_, _)
\* The property names of `seen`, in the order the forEach creates them
collectSeen(matches, seen) ==
  IF matches = <<>> THEN seen
  ELSE LET clean == stripSuffix(Head(matches)) IN
       IF clean \notin Range(seen) /\ Len(clean) = 10
       THEN collectSeen(Tail(matches), Append(seen, clean))
       ELSE collectSeen(Tail(matches), seen)

DigitValue(c) == CHOOSE n \in 0..9 : <<"0","1","2","3","4","5","6","7","8","9">>[n + 1] = c

\* a < b for two digit strings of the same length
DigitsLess(a, b) ==
  \E k \in DOMAIN a :
    /\ \A j \in 1..(k - 1) : a[j] = b[j]
    /\ DigitValue(a[k]) < DigitValue(b[k])

\* 2^32 - 2, the largest array index
maxArrayIndex == <<"4","2","9","4","9","6","7","2","9","4">>

\* A ten-digit property name is an array index when it is a canonical number
\* (no leading zero) not above 2^32 - 2
IsArrayIndex(key) ==
  /\ key[1] # "0"
  /\ (key = maxArrayIndex \/ DigitsLess(key, maxArrayIndex))

RECURSIVE ascending(_)
\* The keys of a set of equally long digit strings in ascending numeric order
ascending(keys) ==
  IF keys = {} THEN <<>>
  ELSE LET least == CHOOSE a \in keys : \A b \in keys \ {a} : DigitsLess(a, b)
       IN  <<least>> \o ascending(keys \ {least})

\* Object.keys: the array-index names in ascending order, then the other names in
\* the order of their creation
ObjectKeys(seen) ==
  ascending({k \in Range(seen) : IsArrayIndex(k)})
    \o SelectSeq(seen, LAMBDA k : ~IsArrayIndex(k))

parseHSCodes(html) == ObjectKeys(collectSeen(matchFrom(html, 1), <<>>))

-----------------------------------------------------------------------------
(* SpecCodes: parseHSCodes applied to a markup *)

sCodeA       == <<"1","2","3","4","5","6","7","8","9","0">>
sCodeB       == <<"9","8","7","6","5","4","3","2","1","0">>
sCodeZ       == <<"0","1","2","3","4","5","6","7","8","9">>
sGroupedA    == <<"1","2","3","4",".","5","6",".","7","8",".","9","0">>
sText        == <<" ","t","e","x","t"," ">>
\* "1234.56.78.90 text 9876543210"
sExampleCodes == sGroupedA \o sText \o sCodeB

\* The pieces the checked markups are made of
MarkupChunks == << sCodeA, sCodeB, sCodeZ, sGroupedA, sText, <<"/">>, <<"7">>, <<"<","t","d",">">> >>

MaxParts == 3

RECURSIVE ChunkMarkups(_)
\* All concatenations of at most n pieces
ChunkMarkups(n) ==
  IF n = 0 THEN {<<>>}
  ELSE LET shorter == ChunkMarkups(n - 1) IN
       shorter \cup {s \o MarkupChunks[k] : s \in shorter, k \in DOMAIN MarkupChunks}

Markups == ChunkMarkups(MaxParts)

InitCodes ==
  /\ RunIdle
  /\ fn = "parseHSCodes"
  /\ arg \in Markups
  /\ res = "none"
  /\ applied = FALSE

ParseCodes ==
  /\ fn = "parseHSCodes" /\ ~applied
  /\ res' = parseHSCodes(arg)
  /\ applied' = TRUE
  /\ UNCHANGED <<runVars, fn, arg>>

NextCodes == ParseCodes

SpecCodes == InitCodes /\ [][NextCodes]_vars

Parsed == fn = "parseHSCodes" /\ applied

\* C10: parseHSCodes recognises contiguous ten-digit runs and grouped codes
\* dddd.dd.dd.dd alike: "1234.56.78.90 text 9876543210" gives exactly the codes
\* 1234567890 and 9876543210, and no code is returned twice.
CE_C10_GroupedAndContiguous ==
  Parsed =>
    /\ (arg = sExampleCodes => Range(res) = {sCodeA, sCodeB})
    /\ \A j, k \in DOMAIN res : res[j] = res[k] => j = k


-----------------------------------------------------------------------------
(* downloadFile of the interception script (src/unnamed/part_000 42-68) *)

(* A payload is known by its size in bytes.  What the servers answer to one call *)
(* is the chain of their answers, one per request the call makes: a response     *)
(* (status, whether it has a Location header, body, whether the body stream ends *)
(* or fails) or a request error.  A chain that ends before the call is settled   *)
(* is a server that never answers the last request.                              *)

PayloadSizes == {999, 1000, 1001}
RedirectBodies == {300}

Response(status, hasLocation, body, streamEnds) ==
  [kind |-> "response", status |-> status, hasLocation |-> hasLocation,
   body |-> body, streamEnds |-> streamEnds]
RequestError == [kind |-> "error", status |-> 0, hasLocation |-> FALSE,
                 body |-> 0, streamEnds |-> FALSE]

Resolved(body) == [state |-> "resolved", length |-> body]
Rejected       == [state |-> "rejected", length |-> 0]
Pending        == [state |-> "pending",  length |-> 0]

\* downloadFile resolving with the body of the first response, redirect or not
RECURSIVE downloadFile_FirstBody(_)
downloadFile_FirstBody(chain) ==
  IF chain = <<>> THEN Pending
  ELSE LET response == Head(chain) IN
       IF response.kind = "error" THEN Rejected
       ELSE IF response.status \notin {200, 301, 302} THEN Rejected
       ELSE IF response.streamEnds THEN Resolved(response.body)
       ELSE Rejected

RECURSIVE downloadFile(_)
downloadFile(chain) ==
  IF chain = <<>> THEN Pending                       \* no answer: never settled
  ELSE LET response == Head(chain) IN
       IF response.kind = "error" THEN Rejected      \* .on('error', reject)
       ELSE IF response.status = 302 \/ response.status = 301
         THEN IF response.hasLocation
              THEN downloadFile(Tail(chain))         \* .then(resolve).catch(reject)
              ELSE Rejected                          \* url.startsWith throws in the executor
       ELSE IF response.status # 200 THEN Rejected   \* 'HTTP ' + statusCode
       ELSE IF response.streamEnds THEN Resolved(response.body)
       ELSE Rejected                                 \* response.on('error', reject)

MaxRedirects == 3

Redirects == {Response(st, TRUE, b, TRUE) : st \in {301, 302}, b \in RedirectBodies}

\* The answers that end a chain
Terminals ==
  {Response(200, FALSE, b, TRUE) : b \in PayloadSizes}
    \cup {Response(200, FALSE, 2000, FALSE), Response(404, FALSE, 1500, TRUE),
          Response(500, FALSE, 0, TRUE), Response(302, FALSE, 300, TRUE),
          RequestError}

RedirectChains == UNION {[1..n -> Redirects] : n \in 0..MaxRedirects}

\* Redirects followed by a last answer, or by none
Chains == RedirectChains \cup {c \o <<t>> : c \in RedirectChains, t \in Terminals}

-----------------------------------------------------------------------------
(* SpecDownload: downloadFile applied to a chain of answers *)

InitDownload ==
  /\ RunIdle
  /\ fn = "downloadFile"
  /\ arg \in Chains
  /\ res = "none"
  /\ applied = FALSE

Download ==
  /\ fn = "downloadFile" /\ ~applied
  /\ res' = downloadFile(arg)
  /\ applied' = TRUE
  /\ UNCHANGED <<runVars, fn, arg>>

NextDownload == Download

SpecDownload == InitDownload /\ [][NextDownload]_vars

Downloaded == fn = "downloadFile" /\ applied

IsRedirect(response) ==
  response.kind = "response" /\ response.status \in {301, 302} /\ response.hasLocation

\* C6: a chain of redirects (three 302s in particular) ending in a 200 response
\* resolves with the payload of that last response, never with a redirect's body;
\* a chain ending in a status that is neither 200 nor a redirect rejects.
Thm_C6_RedirectsFollowed ==
  (Downloaded /\ arg # <<>> /\ \A k \in 1..(Len(arg) - 1) : IsRedirect(arg[k])) =>
    LET last == arg[Len(arg)] IN
    /\ (last.kind = "response" /\ last.status = 200 /\ last.streamEnds
          => res = Resolved(last.body))
    /\ (last.kind = "response" /\ last.status \notin {200, 301, 302}
          => res = Rejected)

Wit_C6_Three302Then200 ==
  /\ Downloaded /\ Len(arg) = 4
  /\ \A k \in 1..3 : arg[k] = Response(302, TRUE, 300, TRUE)
  /\ arg[4] = Response(200, FALSE, 1001, TRUE)
  /\ res = Resolved(1001)


-----------------------------------------------------------------------------
(* The run loops: state shared by the four scripts *)

NumCandidates == 2

\* A Buffer is known by its length; null is the value of a failed download
Buffer(n)  == [null |-> FALSE, length |-> n]
NullBuffer == [null |-> TRUE, length |-> 0]

\* A document of the `files` collection (addDoc in uploadToFirebase)
FileDoc(name, size, category) == [name |-> name, size |-> size, category |-> category]

\* fileExists answering true when the query fails
fileExists_TrueOnError(store, fileName, queryFails) ==
  IF queryFails THEN TRUE
  ELSE \E k \in DOMAIN store : store[k].name = fileName

\* fileExists (src/scanner.js 31-39 and 710-719, src/unnamed/part_000 32-40)
fileExists(store, fileName, queryFails) ==
  IF queryFails THEN FALSE                                   \* catch: return false
  ELSE \E k \in DOMAIN store : store[k].name = fileName      \* !snapshot.empty

\* What was done for one candidate so far: the calls made for it, the counters
\* incremented for it, what fileExists answered ("none" before the call, "error"
\* for the false of a failed query), the size of the payload last retrieved
\* for it (-1 before any), and the URL a listener of the interception script
\* last appended to pdfUrls since pdfUrls was emptied ("none" when none was, and
\* again once the URL read from pdfUrls has been downloaded); for a probe of a
\* chapter scan, whether its pass of the loop went through the delay that ends
\* the try block; for a candidate of the DOM-scan script, the candidate whose
\* click the file taken from the download directory came of, and for an item of
\* run, the item during which the response was observed whose body pdfBuffer holds
NoEvents == [check |-> 0, click |-> 0, retrieve |-> 0, write |-> 0,
             uploaded |-> 0, skipped |-> 0, failed |-> 0,
             exists |-> "none", payload |-> -1, last |-> "none", delay |-> 0,
             clickOf |-> 0]

\* pdfUrls = [] and pdfUrls.push(url), as the events of the candidate see them
Emptied(events) == [events EXCEPT !.last = "none"]
Pushed(events, url) == [events EXCEPT !.last = url]

Bump(events, field) == [events EXCEPT ![field] = @ + 1]

Got(events, size) == [Bump(events, "retrieve") EXCEPT !.payload = size]

sSectionPrefix == <<"S","e","c","t","i","o","n","_">>
sI   == <<"I">>
sII  == <<"I","I">>
sIII == <<"I","I","I">>
sIV  == <<"I","V">>

\* KNOWN_PDF_SECTIONS (src/scanner.js 808-833), its first entries
knownPdfSections ==
  << sSectionPrefix \o sI \o sDotPdf, sSectionPrefix \o sII \o sDotPdf,
     sSectionPrefix \o sIII \o sDotPdf, sSectionPrefix \o sIV \o sDotPdf >>

\* 'הורדת קובץ התעריף'
sDownloadTariffFile ==
  <<"he","vav","resh","dalet","tav"," ","qof","vav","bet","finaltsadi"," ",
    "he","tav","ayin","resh","yod","finalpe">>

\* items of the interception script (src/unnamed/part_000 141-149), its first entries
interceptItems == <<sDownloadTariffFile, sI, sII, sIII>>

\* items of run (src/unnamed/part_001 61), its first entries
runItems == <<sI, sII, sIII, sIV>>

\* Display texts the DOM scan can discover (src/scanner.js 148-157): Roman
\* numerals, and an element with an onclick or href holding 'Download'
sIDot == <<"I", ".">>
DomTexts == {sI, sII, sIDot}

\* The characters that text.replace(/[^a-zA-Z0-9א-ת\s]/g, '') keeps
NameChars == Range(Upper) \cup Range(Lower) \cup Digits \cup HebrewLetters \cup Whitespace

RECURSIVE trimStart(_)
trimStart(s) == IF s # <<>> /\ Head(s) \in Whitespace THEN trimStart(Tail(s)) ELSE s

RECURSIVE trimEnd(_)
trimEnd(s) ==
  IF s # <<>> /\ s[Len(s)] \in Whitespace THEN trimEnd(SubSeq(s, 1, Len(s) - 1)) ELSE s

trim(s) == trimEnd(trimStart(s))

\* The file name of a display text (src/scanner.js 184, src/unnamed/part_000 157)
normalizedFileName(text) ==
  trim(SelectSeq(text, LAMBDA c : c \in NameChars)) \o sDotPdf

\* The candidates a script takes, cut to NumCandidates
CandidateLists(v) ==
  CASE v = "manifest"  -> {SubSeq(knownPdfSections, 1, NumCandidates)}
    [] v = "intercept" -> {SubSeq(interceptItems, 1, NumCandidates)}
    [] v = "run"       -> {SubSeq(runItems, 1, NumCandidates)}
    [] v = "domscan"   -> [1..NumCandidates -> DomTexts]

\* The file name a script gives a candidate
fileNameOf(v, item) ==
  CASE v = "manifest"  -> item                              \* item.name
    [] v = "intercept" -> normalizedFileName(item)
    [] v = "domscan"   -> normalizedFileName(item)
    [] v = "run"       -> sSectionPrefix \o item \o sDotPdf  \* part_001 81

Variants == {"manifest", "domscan", "intercept", "run"}

\* Where a script starts
StartPc(v) == IF v = "manifest" THEN "check" ELSE "launch"

fileName == fileNameOf(variant, items[i])

\* The category a script stores a name under
categoryOf(v, name) ==
  CASE v = "manifest"  -> detectCategoryManifest(name).category
    [] v = "intercept" -> detectCategoryIntercept(name)
    [] v = "domscan"   -> detectCategoryDom(name)
    [] v = "run"       -> "tariff"                           \* part_001 81

RECURSIVE DocsOf(_, _, _)
\* One document for each name of the list that is in `names`, none twice
DocsOf(v, list, names) ==
  IF list = <<>> THEN <<>>
  ELSE IF Head(list) \in names
       THEN <<FileDoc(Head(list), 2000, categoryOf(v, Head(list)))>>
              \o DocsOf(v, Tail(list), names \ {Head(list)})
       ELSE DocsOf(v, Tail(list), names)

\* The `files` collections a run may find: any of its candidates' names is
\* stored already, under pairwise distinct names
StoresBefore(v, list) ==
  {DocsOf(v, [k \in DOMAIN list |-> fileNameOf(v, list[k])], names) :
     names \in SUBSET {fileNameOf(v, list[k]) : k \in DOMAIN list}}

\* The files a run may find in the download directory. A file of the directory
\* is known by its size, by the candidate whose click made the browser save it
\* (0: none of this run), and by whether it is complete: until then it is a
\* .crdownload file, of no size yet, that waitForDownload passes over.
DirsBefore(v) ==
  IF v = "domscan" THEN {{}, {[size |-> 2000, by |-> 0, complete |-> TRUE]}} ELSE {{}}

Init ==
  /\ PureIdle
  /\ variant \in Variants
  /\ items \in CandidateLists(variant)
  /\ before \in StoresBefore(variant, items)
  /\ files = before
  /\ pc = StartPc(variant)
  /\ i = IF variant = "manifest" THEN 1 ELSE 0
  /\ uploaded = 0 /\ skipped = 0 /\ failed = 0
  /\ buf = NullBuffer
  /\ cur = NoEvents
  /\ exitCode = "none"
  /\ logs = <<>>
  /\ browser = "none" /\ pageUrl = "origin" /\ pdfUrls = <<>> /\ pdfUrl = "none" /\ tabs = <<>>
  /\ scanIdx = 0 /\ found = FALSE
  /\ dir \in DirsBefore(variant)

\* The processing of the current candidate is over
EndCandidate == pc' = "next" /\ UNCHANGED i

\* Where a script goes after its loop
AfterLoop(v) == IF v = "manifest" THEN "summary" ELSE "close"

\* The for statement takes the next candidate, or the loop ends
LoopNext ==
  /\ pc = "next"
  /\ i' = i + 1
  /\ cur' = NoEvents
  /\ pc' = IF i = Len(items) THEN AfterLoop(variant) ELSE IF variant = "run" THEN "click" ELSE "check"
  /\ UNCHANGED <<uploaded, skipped, failed, files, buf, exitCode, logs, browserVars, fixedVars>>

\* An exception leaves the script's main function: process.exit(1)
Abort == exitCode' = 1 /\ pc' = "done"

\* A record of `scanner_logs`
RunSummary(u, s, f) == [uploaded |-> u, skipped |-> s, failed |-> f]

\* An addDoc call on `scanner_logs`: the record given to it, and whether the
\* store took it. `logs` holds the calls of the run in order.
SummaryWrite(doc, isStored) == [doc |-> doc, stored |-> isStored]

-----------------------------------------------------------------------------
(* The manifest runScanner (src/scanner.js 836-912) *)

\* downloadFile of the manifest script (src/scanner.js 722-736): the payload of
\* the reply, null when axios throws (transport error, non-2xx status, timeout)
downloadFileAxios(reply) ==
  IF reply.ok THEN Buffer(reply.size) ELSE NullBuffer

AxiosReplies == {[ok |-> TRUE, size |-> n] : n \in {500, 2000}} \cup {[ok |-> FALSE, size |-> 0]}

\* The existence check and the skip, as every script that has them writes them
\* (src/scanner.js 187-192 and 853-858, src/unnamed/part_000 160-165)
CheckThen(proceed) ==
  \E queryFails \in BOOLEAN :
    LET exists  == fileExists(files, fileName, queryFails)
        answer  == IF queryFails THEN "error" ELSE IF exists THEN "true" ELSE "false"
        checked == [Bump(cur, "check") EXCEPT !.exists = answer]
    IN  IF exists
        THEN /\ skipped' = skipped + 1
             /\ cur' = Bump(checked, "skipped")
             /\ EndCandidate
        ELSE /\ cur' = checked
             /\ pc' = proceed
             /\ UNCHANGED <<skipped, i>>

\* lines 853-858: the existence check, and the skip
ManifestCheck ==
  /\ variant = "manifest" /\ pc = "check"
  /\ CheckThen("download")
  /\ UNCHANGED <<uploaded, failed, files, buf, exitCode, logs, browserVars, fixedVars>>

\* lines 861-866: the download
ManifestDownload ==
  /\ variant = "manifest" /\ pc = "download"
  /\ \E reply \in AxiosReplies :
       LET fileBuffer == downloadFileAxios(reply) IN
       IF fileBuffer.null                                     \* if (!fileBuffer)
       THEN /\ failed' = failed + 1
            /\ cur' = Bump(Bump(cur, "retrieve"), "failed")
            /\ buf' = NullBuffer
            /\ EndCandidate
       ELSE /\ cur' = Got(cur, fileBuffer.length)
            /\ buf' = fileBuffer
            /\ pc' = "upload"
            /\ UNCHANGED <<failed, i>>
  /\ UNCHANGED <<uploaded, skipped, files, exitCode, logs, browserVars, fixedVars>>

\* uploadToFirebase (src/scanner.js 41-69 and 739-771, src/unnamed/part_000
\* 70-97) and the count of its result: a document is added and `uploaded`
\* incremented, or the failure is caught and `failed` incremented
StoreAndCount(size) ==
  \E storeFails \in BOOLEAN :
    IF storeFails
    THEN /\ failed' = failed + 1
         /\ cur' = Bump(Bump(cur, "write"), "failed")
         /\ UNCHANGED <<uploaded, files>>
    ELSE /\ files' = Append(files, FileDoc(fileName, size, categoryOf(variant, fileName)))
         /\ uploaded' = uploaded + 1
         /\ cur' = Bump(Bump(cur, "write"), "uploaded")
         /\ UNCHANGED failed

\* lines 869-879: the store write
ManifestUpload ==
  /\ variant = "manifest" /\ pc = "upload"
  /\ StoreAndCount(buf.length)
  /\ buf' = NullBuffer
  /\ EndCandidate
  /\ UNCHANGED <<skipped, exitCode, logs, browserVars, fixedVars>>

\* lines 889-900: the RunSummary write, its failure swallowed
ManifestSummary ==
  /\ variant = "manifest" /\ pc = "summary"
  /\ \E storeFails \in BOOLEAN :
       logs' = Append(logs, SummaryWrite([uploaded |-> uploaded, skipped |-> skipped,
                                          failed |-> failed,
                                          status |-> IF failed = 0 THEN "success" ELSE "partial"],
                                         ~storeFails))
  /\ pc' = "exit"
  /\ UNCHANGED <<i, uploaded, skipped, failed, files, buf, cur, exitCode, browserVars, fixedVars>>

\* lines 904-908: runScanner() resolved
ManifestExit ==
  /\ variant = "manifest" /\ pc = "exit"
  /\ exitCode' = 0
  /\ pc' = "done"
  /\ UNCHANGED <<i, uploaded, skipped, failed, files, buf, cur, logs, browserVars, fixedVars>>

-----------------------------------------------------------------------------
(* The interception runScanner (src/unnamed/part_000 99-273) *)

\* The size a payload must exceed to be uploaded (part_000 195 and 212)
MinPdfLength == 1000

DocUrls == {"docA", "docB"}
MaxUrls == 2
MaxTabs == 1

\* What a call of downloadFile can come to; a call that stays pending never returns
DownloadOutcomes == {downloadFile(c) : c \in Chains} \ {Pending}

\* browser.pages(): the blank page of the launch, the driving page, the other tabs
Pages == IF pageUrl = "closed" THEN <<"blank">> \o tabs ELSE <<"blank", pageUrl>> \o tabs

\* The page is one the tab scan downloads from (line 208)
Eligible(url) == url # "origin" /\ url # "blank"

\* line 109: puppeteer.launch; its failure rejects runScanner
InterceptLaunch ==
  /\ variant = "intercept" /\ pc = "launch"
  /\ \/ /\ browser' = "open" /\ pc' = "setup" /\ UNCHANGED exitCode
     \/ /\ Abort /\ UNCHANGED browser
  /\ UNCHANGED <<i, uploaded, skipped, failed, files, buf, cur, logs,
                 pageUrl, pdfUrls, pdfUrl, tabs, scanIdx, found, dir, fixedVars>>

\* lines 114-116: newPage, setViewport, setUserAgent; outside the try block
InterceptSetup ==
  /\ variant = "intercept" /\ pc = "setup"
  /\ \/ /\ pc' = "goto" /\ UNCHANGED exitCode
     \/ Abort
  /\ UNCHANGED <<i, uploaded, skipped, failed, files, buf, cur, logs, browserVars, fixedVars>>

\* lines 153-154: the first navigation; its failure is caught at line 245
InterceptGoto ==
  /\ variant = "intercept" /\ pc = "goto"
  /\ \/ /\ pageUrl' = "origin" /\ pc' = "check" /\ i' = 1
     \/ /\ pageUrl' = "away" /\ pc' = "close" /\ UNCHANGED i
  /\ UNCHANGED <<uploaded, skipped, failed, files, buf, cur, exitCode, logs,
                 browser, pdfUrls, pdfUrl, tabs, scanIdx, found, dir, fixedVars>>

\* lines 157-165: the existence check, and the skip
InterceptCheck ==
  /\ variant = "intercept" /\ pc = "check"
  /\ CheckThen("click")
  /\ UNCHANGED <<uploaded, failed, files, buf, exitCode, logs, browserVars, fixedVars>>

\* lines 167-188: the buffer is emptied, then the element is looked up and clicked
InterceptClick ==
  /\ variant = "intercept" /\ pc = "click"
  /\ pdfUrls' = <<>>
  /\ \/ \* page.evaluate throws
        /\ cur' = Bump(Emptied(cur), "click")
        /\ pc' = "err"
        /\ UNCHANGED <<failed, i>>
     \/ \* no element has the text: clicked is false
        /\ pageUrl # "closed"
        /\ failed' = failed + 1
        /\ cur' = Bump(Emptied(cur), "failed")
        /\ EndCandidate
     \/ \* the element is clicked
        /\ pageUrl # "closed"
        /\ cur' = Bump(Emptied(cur), "click")
        /\ pc' = "wait"
        /\ UNCHANGED <<failed, i>>
  /\ UNCHANGED <<uploaded, skipped, files, buf, exitCode, logs,
                 browser, pageUrl, pdfUrl, tabs, scanIdx, found, dir, fixedVars>>

\* lines 120-127: the response listener appends the URL of a document response,
\* during the wait or earlier. A URL appended after the read of line 190 stays
\* in the buffer until line 167 empties it, and is never read: of these the
\* model keeps the ones appended once the candidate has passed its check.
OnResponse ==
  /\ variant = "intercept" /\ pc \in {"click", "wait"}
  /\ Len(pdfUrls) < MaxUrls
  /\ \E url \in DocUrls :
       /\ pdfUrls' = Append(pdfUrls, url)
       /\ cur' = Pushed(cur, url)
  /\ UNCHANGED <<pc, i, uploaded, skipped, failed, files, buf, exitCode, logs,
                 browser, pageUrl, pdfUrl, tabs, scanIdx, found, dir, fixedVars>>

\* lines 129-135: a tab is created; its URL is appended unless it is about:blank
OnTargetCreated ==
  /\ variant = "intercept" /\ pc = "wait"
  /\ Len(tabs) < MaxTabs
  /\ \/ /\ tabs' = Append(tabs, "blank")
        /\ UNCHANGED <<pdfUrls, cur>>
     \/ /\ Len(pdfUrls) < MaxUrls
        /\ \E url \in DocUrls :
             /\ pdfUrls' = Append(pdfUrls, url)
             /\ cur' = Pushed(cur, url)
        /\ tabs' = Append(tabs, "doc")
  /\ UNCHANGED <<pc, i, uploaded, skipped, failed, files, buf, exitCode, logs,
                 browser, pageUrl, pdfUrl, scanIdx, found, dir, fixedVars>>

\* A tab created blank loads its document; no listener of the script sees it
TabNavigates ==
  /\ variant = "intercept" /\ pc = "wait"
  /\ \E k \in DOMAIN tabs :
       /\ tabs[k] = "blank"
       /\ tabs' = [tabs EXCEPT ![k] = "doc"]
  /\ UNCHANGED <<pc, i, uploaded, skipped, failed, files, buf, cur, exitCode, logs,
                 browser, pageUrl, pdfUrls, pdfUrl, scanIdx, found, dir, fixedVars>>

\* The click makes the driving page leave the origin page. The interception
\* script goes back to it (lines 229-240); the DOM-scan loop (src/scanner.js
\* 183-243) has no navigation
PageNavigates ==
  /\ variant \in {"intercept", "domscan"} /\ pc = "wait"
  /\ pageUrl = "origin"
  /\ pageUrl' = "away"
  /\ UNCHANGED <<pc, i, uploaded, skipped, failed, files, buf, cur, exitCode, logs,
                 browser, pdfUrls, pdfUrl, tabs, scanIdx, found, dir, fixedVars>>

\* pdfUrls[pdfUrls.length - 1] (line 191)
lastOf_First(urls) == urls[1]

lastOf(urls) == urls[Len(urls)]

\* lines 188-191 and 204-205: after the wait, the last URL of the buffer or the
\* open tabs. The buffer is not read again before line 167 empties it: it is
\* kept empty from here until the next candidate is at its click.
InterceptAfterWait ==
  /\ variant = "intercept" /\ pc = "wait"
  /\ IF Len(pdfUrls) > 0
     THEN /\ pdfUrl' = lastOf(pdfUrls)
          /\ pc' = "download"
          /\ UNCHANGED <<scanIdx, found>>
     ELSE /\ \/ pc' = "tabs" /\ scanIdx' = 1 /\ found' = FALSE
             \/ pc' = "err" /\ UNCHANGED <<scanIdx, found>>   \* browser.pages() throws
          /\ UNCHANGED pdfUrl
  /\ pdfUrls' = <<>>
  /\ UNCHANGED <<i, uploaded, skipped, failed, files, buf, cur, exitCode, logs,
                 browser, pageUrl, tabs, dir, fixedVars>>

\* lines 191-202: the last buffered URL is downloaded
InterceptDownload ==
  /\ variant = "intercept" /\ pc = "download"
  /\ \E outcome \in DownloadOutcomes :
       IF outcome.state = "rejected"
       THEN /\ cur' = Bump(Emptied(cur), "retrieve")
            /\ pc' = "err"
            /\ UNCHANGED <<failed, buf>>
       ELSE IF outcome.length > MinPdfLength
       THEN /\ cur' = Got(Emptied(cur), outcome.length)
            /\ buf' = Buffer(outcome.length)
            /\ pc' = "upload"
            /\ UNCHANGED failed
       ELSE /\ failed' = failed + 1                           \* 'File too small'
            /\ cur' = Bump(Got(Emptied(cur), outcome.length), "failed")
            /\ pc' = "nav"
            /\ UNCHANGED buf
  /\ pdfUrl' = "none"
  /\ UNCHANGED <<i, uploaded, skipped, files, exitCode, logs,
                 browser, pageUrl, pdfUrls, tabs, scanIdx, found, dir, fixedVars>>

\* lines 196-198: the payload is uploaded and counted
InterceptUpload ==
  /\ variant = "intercept" /\ pc = "upload"
  /\ StoreAndCount(buf.length)
  /\ buf' = NullBuffer
  /\ pc' = "nav"
  /\ UNCHANGED <<i, skipped, exitCode, logs, browserVars, fixedVars>>

\* lines 204-227: the tab scan takes the next page that is neither the origin page
\* nor blank and downloads its URL; a rejected or small download goes on to the
\* next page; with no page left the candidate has failed unless `found` is set
InterceptTabs ==
  /\ variant = "intercept" /\ pc = "tabs"
  /\ IF \E k \in scanIdx..Len(Pages) : Eligible(Pages[k])
     THEN LET k == CHOOSE k \in scanIdx..Len(Pages) :
                     /\ Eligible(Pages[k])
                     /\ \A m \in scanIdx..(k - 1) : ~Eligible(Pages[m])
          IN  \E outcome \in DownloadOutcomes :
                /\ IF outcome.state = "resolved" /\ outcome.length > MinPdfLength
                   THEN /\ cur' = Got(cur, outcome.length)
                        /\ buf' = Buffer(outcome.length)
                        /\ scanIdx' = k
                        /\ pc' = "tabupload"
                   ELSE /\ cur' = IF outcome.state = "resolved"
                                  THEN Got(cur, outcome.length)
                                  ELSE Bump(cur, "retrieve")  \* catch (e) {}
                        /\ scanIdx' = k + 1
                        /\ pc' = "tabs"
                        /\ UNCHANGED buf
                /\ UNCHANGED <<failed, found>>
     ELSE /\ IF found
             THEN UNCHANGED <<failed, cur>>
             ELSE /\ failed' = failed + 1                     \* 'No PDF found'
                  /\ cur' = Bump(cur, "failed")
          /\ pc' = "nav"
          /\ scanIdx' = 0 /\ found' = FALSE
          /\ UNCHANGED buf
  /\ UNCHANGED <<i, uploaded, skipped, files, exitCode, logs,
                 browser, pageUrl, pdfUrls, pdfUrl, tabs, dir, fixedVars>>

\* lines 213-216: the payload of the tab is uploaded and counted, `found` is set
InterceptTabUpload ==
  /\ variant = "intercept" /\ pc = "tabupload"
  /\ StoreAndCount(buf.length)
  /\ buf' = NullBuffer
  /\ found' = TRUE
  /\ pc' = "tabclose"
  /\ UNCHANGED <<i, skipped, exitCode, logs,
                 browser, pageUrl, pdfUrls, pdfUrl, tabs, scanIdx, dir, fixedVars>>

\* lines 217-220: the tab is closed and the scan ends; a failing close is caught
\* at line 220 and the scan goes on to the next page
InterceptTabClose ==
  /\ variant = "intercept" /\ pc = "tabclose"
  /\ \/ /\ IF pageUrl # "closed" /\ scanIdx = 2
           THEN pageUrl' = "closed" /\ UNCHANGED tabs          \* the driving page itself
           ELSE /\ tabs' = LET t == scanIdx - (Len(Pages) - Len(tabs)) IN
                            SubSeq(tabs, 1, t - 1) \o SubSeq(tabs, t + 1, Len(tabs))
                /\ UNCHANGED pageUrl
        /\ pc' = "nav"
        /\ scanIdx' = 0 /\ found' = FALSE
     \/ /\ pc' = "tabs"
        /\ scanIdx' = scanIdx + 1
        /\ UNCHANGED <<pageUrl, tabs, found>>
  /\ UNCHANGED <<i, uploaded, skipped, failed, files, buf, cur, exitCode, logs,
                 browser, pdfUrls, pdfUrl, dir, fixedVars>>

\* lines 229-232 and 242: back to the origin page when the driving page left it
InterceptNav ==
  /\ variant = "intercept" /\ pc = "nav"
  /\ IF pageUrl = "origin"
     THEN EndCandidate /\ UNCHANGED pageUrl
     ELSE \/ /\ pageUrl = "away"
             /\ pageUrl' = "origin"
             /\ EndCandidate
          \/ /\ pc' = "err"                                    \* page.goto throws
             /\ UNCHANGED <<pageUrl, i>>
  /\ UNCHANGED <<uploaded, skipped, failed, files, buf, cur, exitCode, logs,
                 browser, pdfUrls, pdfUrl, tabs, scanIdx, found, dir, fixedVars>>

\* lines 234-242: the candidate's catch block
InterceptCatch ==
  /\ variant = "intercept" /\ pc = "err"
  /\ failed' = failed + 1
  /\ cur' = Bump(cur, "failed")
  /\ \/ pageUrl # "closed" /\ pageUrl' = "origin"
     \/ UNCHANGED pageUrl                                      \* goto throws: ignored
  /\ EndCandidate
  /\ UNCHANGED <<uploaded, skipped, files, buf, exitCode, logs,
                 browser, pdfUrls, pdfUrl, tabs, scanIdx, found, dir, fixedVars>>

\* lines 247-249: browser.close() in the finally block; its failure rejects runScanner
InterceptClose ==
  /\ variant = "intercept" /\ pc = "close"
  /\ \/ /\ browser' = "closed" /\ pc' = "summary" /\ UNCHANGED exitCode
     \/ /\ browser' = "closefailed" /\ Abort               \* browser.close() throws
  /\ UNCHANGED <<i, uploaded, skipped, failed, files, buf, cur, logs,
                 pageUrl, pdfUrls, pdfUrl, tabs, scanIdx, found, dir, fixedVars>>

\* lines 258-265: the RunSummary write, its failure swallowed
InterceptSummary ==
  /\ variant = "intercept" /\ pc = "summary"
  /\ \E storeFails \in BOOLEAN :
       logs' = Append(logs, SummaryWrite(RunSummary(uploaded, skipped, failed), ~storeFails))
  /\ pc' = "exit"
  /\ UNCHANGED <<i, uploaded, skipped, failed, files, buf, cur, exitCode, browserVars, fixedVars>>

\* lines 268-269: runScanner() resolved
InterceptExit ==
  /\ variant = "intercept" /\ pc = "exit"
  /\ exitCode' = 0
  /\ pc' = "done"
  /\ UNCHANGED <<i, uploaded, skipped, failed, files, buf, cur, logs, browserVars, fixedVars>>

-----------------------------------------------------------------------------
(* The DOM-scan runScanner (src/scanner.js 82-271) *)

\* The sizes of the files the browser saves into the download directory
DownloadedSizes == {500, 2000}

\* lines 87-99: the download directory is emptied and the browser launched; a
\* failure of either rejects runScanner
DomLaunch ==
  /\ variant = "domscan" /\ pc = "launch"
  /\ \/ /\ dir' = {} /\ browser' = "open" /\ pc' = "setup" /\ UNCHANGED exitCode
     \/ /\ dir' = {} /\ Abort /\ UNCHANGED browser           \* launch throws
     \/ /\ Abort /\ UNCHANGED <<dir, browser>>               \* readdirSync or unlinkSync throws
  /\ UNCHANGED <<i, uploaded, skipped, failed, files, buf, cur, logs,
                 pageUrl, pdfUrls, pdfUrl, tabs, scanIdx, found, fixedVars>>

\* lines 101-112: newPage, the CDP session, viewport, user agent; outside the try block
DomSetup ==
  /\ variant = "domscan" /\ pc = "setup"
  /\ \/ /\ pc' = "goto" /\ UNCHANGED exitCode
     \/ Abort
  /\ UNCHANGED <<i, uploaded, skipped, failed, files, buf, cur, logs, browserVars, fixedVars>>

\* lines 120-180: the navigation and the discovery of downloadButtons; a failure
\* is caught at line 245
DomDiscover ==
  /\ variant = "domscan" /\ pc = "goto"
  /\ \/ /\ pageUrl' = "origin" /\ pc' = "check" /\ i' = 1
     \/ /\ pc' = "close" /\ UNCHANGED <<pageUrl, i>>
  /\ UNCHANGED <<uploaded, skipped, failed, files, buf, cur, exitCode, logs,
                 browser, pdfUrls, pdfUrl, tabs, scanIdx, found, dir, fixedVars>>

\* lines 184-192: the existence check, and the skip
DomCheck ==
  /\ variant = "domscan" /\ pc = "check"
  /\ CheckThen("click")
  /\ UNCHANGED <<uploaded, failed, files, buf, exitCode, logs, browserVars, fixedVars>>

\* lines 196-213: the element is looked up by its text and clicked
DomClick ==
  /\ variant = "domscan" /\ pc = "click"
  /\ \/ \* page.$$, element.evaluate or element.click throws: catch at line 236
        /\ failed' = failed + 1
        /\ cur' = Bump(Bump(cur, "click"), "failed")
        /\ EndCandidate
     \/ \* no element has the text: clicked is false
        /\ failed' = failed + 1
        /\ cur' = Bump(cur, "failed")
        /\ EndCandidate
     \/ \* the element is clicked
        /\ cur' = Bump(cur, "click")
        /\ pc' = "wait"
        /\ UNCHANGED <<failed, i>>
  /\ UNCHANGED <<uploaded, skipped, files, buf, exitCode, logs, browserVars, fixedVars>>

\* The browser saves into the download directory the file that the click of
\* the candidate asked for; and a file it is saving becomes complete, be it the
\* file of this candidate or of an earlier one whose wait has timed out
OnDownload ==
  /\ variant = "domscan" /\ pc = "wait"
  /\ \/ /\ \A f \in dir : f.by # i
        /\ dir' = dir \cup {[size |-> 0, by |-> i, complete |-> FALSE]}
     \/ \E f \in dir, size \in DownloadedSizes :
          /\ ~f.complete
          /\ dir' = (dir \ {f}) \cup {[size |-> size, by |-> f.by, complete |-> TRUE]}
  /\ UNCHANGED <<pc, i, uploaded, skipped, failed, files, buf, cur, exitCode, logs,
                 browser, pageUrl, pdfUrls, pdfUrl, tabs, scanIdx, found, fixedVars>>

\* waitForDownload (lines 71-80) as called at line 217, and lines 219-234: any
\* .pdf file of the directory is taken; with none until the timeout the
\* candidate has failed
DomWaitForDownload ==
  /\ variant = "domscan" /\ pc = "wait"
  /\ \/ /\ \E pdfFile \in {f \in dir : f.complete} :
             /\ buf' = Buffer(pdfFile.size)
             /\ cur' = [Got(cur, pdfFile.size) EXCEPT !.clickOf = pdfFile.by]
        /\ pc' = "upload"
        /\ UNCHANGED <<failed, i>>
     \/ /\ \A f \in dir : ~f.complete                         \* return null
        /\ failed' = failed + 1
        /\ cur' = Bump(Bump(cur, "retrieve"), "failed")
        /\ EndCandidate
        /\ UNCHANGED buf
     \/ /\ failed' = failed + 1                               \* readdirSync throws
        /\ cur' = Bump(Bump(cur, "retrieve"), "failed")
        /\ EndCandidate
        /\ UNCHANGED buf
  /\ UNCHANGED <<uploaded, skipped, files, exitCode, logs, browserVars, fixedVars>>

\* lines 220-230: the file is uploaded and counted, then unlinked; a failing
\* unlink is ignored and leaves the file
DomUpload ==
  /\ variant = "domscan" /\ pc = "upload"
  /\ StoreAndCount(buf.length)
  /\ \/ dir' = dir \ {[size |-> buf.length, by |-> cur.clickOf, complete |-> TRUE]}
     \/ UNCHANGED dir
  /\ buf' = NullBuffer
  /\ EndCandidate
  /\ UNCHANGED <<skipped, exitCode, logs,
                 browser, pageUrl, pdfUrls, pdfUrl, tabs, scanIdx, found, fixedVars>>

\* lines 247-249: browser.close() in the finally block; its failure rejects runScanner
DomClose ==
  /\ variant = "domscan" /\ pc = "close"
  /\ \/ /\ browser' = "closed" /\ pc' = "summary" /\ UNCHANGED exitCode
     \/ /\ browser' = "closefailed" /\ Abort               \* browser.close() throws
  /\ UNCHANGED <<i, uploaded, skipped, failed, files, buf, cur, logs,
                 pageUrl, pdfUrls, pdfUrl, tabs, scanIdx, found, dir, fixedVars>>

\* lines 258-263: the RunSummary write, its failure swallowed
DomSummary ==
  /\ variant = "domscan" /\ pc = "summary"
  /\ \E storeFails \in BOOLEAN :
       logs' = Append(logs, SummaryWrite(RunSummary(uploaded, skipped, failed), ~storeFails))
  /\ pc' = "exit"
  /\ UNCHANGED <<i, uploaded, skipped, failed, files, buf, cur, exitCode, browserVars, fixedVars>>

\* lines 266-267: runScanner() resolved
DomExit ==
  /\ variant = "domscan" /\ pc = "exit"
  /\ exitCode' = 0
  /\ pc' = "done"
  /\ UNCHANGED <<i, uploaded, skipped, failed, files, buf, cur, logs, browserVars, fixedVars>>

-----------------------------------------------------------------------------
(* run (src/unnamed/part_001 35-100) *)

\* The size a captured payload must exceed to be uploaded (part_001 80)
MinCaptureLength == 5000

\* The sizes of the responses the listener captures
CapturedSizes == {500, 2000, 5000, 5001}

\* lines 38-59: launch, newPage and the first navigation; run has no try block,
\* so a failure of any rejects run
RunLaunch ==
  /\ variant = "run" /\ pc = "launch"
  /\ \/ /\ browser' = "open" /\ pc' = "click" /\ i' = 1 /\ UNCHANGED exitCode
     \/ /\ browser' = "open" /\ Abort /\ UNCHANGED i          \* newPage or goto throws
     \/ /\ Abort /\ UNCHANGED <<browser, i>>                  \* launch throws
  /\ UNCHANGED <<uploaded, skipped, failed, files, buf, cur, logs,
                 pageUrl, pdfUrls, pdfUrl, tabs, scanIdx, found, dir, fixedVars>>

\* lines 65-76: pdfBuffer is reset and every span with the text is clicked
RunClick ==
  /\ variant = "run" /\ pc = "click"
  /\ buf' = NullBuffer
  /\ cur' = Bump(cur, "click")
  /\ \/ pc' = "wait" /\ UNCHANGED exitCode
     \/ Abort                                                \* page.evaluate throws
  /\ UNCHANGED <<i, uploaded, skipped, failed, files, logs, browserVars, fixedVars>>

\* lines 46-54: the response listener keeps the body of a document response
\* once `await res.buffer()` has read it; a body that cannot be read leaves
\* pdfBuffer as it was. The listener is the same for every item: the body may
\* be that of a response observed since the reset of line 67, or of one observed
\* while the item before was waited for or navigated back from, whose read
\* ends only now
OnResponseRun ==
  /\ variant = "run" /\ pc = "wait"
  /\ \E size \in CapturedSizes, observedAt \in {i - 1, i} :
       /\ observedAt >= 1
       /\ buf # Buffer(size) \/ cur.clickOf # observedAt
       /\ buf' = Buffer(size)
       /\ cur' = [cur EXCEPT !.retrieve = 1, !.payload = size, !.clickOf = observedAt]
  /\ UNCHANGED <<pc, i, uploaded, skipped, failed, files, exitCode, logs, browserVars, fixedVars>>

\* lines 78-85: after the wait a captured payload above the threshold is
\* uploaded; uploadToFirebase (lines 16-33) catches nothing, so a failing store
\* write rejects run
RunUpload ==
  /\ variant = "run" /\ pc = "wait"
  /\ IF ~buf.null /\ buf.length > MinCaptureLength
     THEN \/ /\ files' = Append(files, FileDoc(fileName, buf.length, categoryOf(variant, fileName)))
             /\ uploaded' = uploaded + 1
             /\ cur' = Bump(Bump(cur, "write"), "uploaded")
             /\ pc' = "nav"
             /\ UNCHANGED exitCode
          \/ /\ cur' = Bump(cur, "write")
             /\ Abort
             /\ UNCHANGED <<files, uploaded>>
     ELSE /\ pc' = "nav"                                      \* 'No PDF for'
          /\ UNCHANGED <<files, uploaded, cur, exitCode>>
  /\ UNCHANGED <<i, skipped, failed, buf, logs, browserVars, fixedVars>>

\* lines 87-88: back to the page; a failing navigation rejects run
RunNav ==
  /\ variant = "run" /\ pc = "nav"
  /\ \/ EndCandidate /\ UNCHANGED exitCode
     \/ Abort /\ UNCHANGED i
  /\ UNCHANGED <<uploaded, skipped, failed, files, buf, cur, logs, browserVars, fixedVars>>

\* lines 91-96: browser.close(), then run() resolved; a failing close rejects run
RunClose ==
  /\ variant = "run" /\ pc = "close"
  /\ \/ /\ browser' = "closed" /\ exitCode' = 0 /\ pc' = "done"
     \/ /\ browser' = "closefailed" /\ Abort               \* browser.close() throws
  /\ UNCHANGED <<i, uploaded, skipped, failed, files, buf, cur, logs,
                 pageUrl, pdfUrls, pdfUrl, tabs, scanIdx, found, dir, fixedVars>>

-----------------------------------------------------------------------------

Next ==
  \/ LoopNext
  \/ ManifestCheck \/ ManifestDownload \/ ManifestUpload \/ ManifestSummary \/ ManifestExit
  \/ InterceptLaunch \/ InterceptSetup \/ InterceptGoto \/ InterceptCheck \/ InterceptClick
  \/ OnResponse \/ OnTargetCreated \/ TabNavigates \/ PageNavigates
  \/ InterceptAfterWait \/ InterceptDownload \/ InterceptUpload
  \/ InterceptTabs \/ InterceptTabUpload \/ InterceptTabClose
  \/ InterceptNav \/ InterceptCatch \/ InterceptClose \/ InterceptSummary \/ InterceptExit
  \/ DomLaunch \/ DomSetup \/ DomDiscover \/ DomCheck \/ DomClick \/ OnDownload
  \/ DomWaitForDownload \/ DomUpload \/ DomClose \/ DomSummary \/ DomExit
  \/ RunLaunch \/ RunClick \/ OnResponseRun \/ RunUpload \/ RunNav \/ RunClose

Spec == Init /\ [][Next]_vars

-----------------------------------------------------------------------------
(* The run loops: properties *)

\* The step a script takes after an existence check that did not skip
AfterCheck(v) == IF v = "manifest" THEN "download" ELSE "click"

\* The candidate is the section `roman`, under either way of naming it
IsSection(item, roman) == item = roman \/ item = sSectionPrefix \o roman \o sDotPdf

\* C1: in every run loop the existence check is called exactly once per
\* candidate and before any click or retrieval for it; when it answers true the
\* candidate increments `skipped` once, neither `uploaded` nor `failed`, and
\* causes no retrieval call and no store write.
CE_C1_CheckedOnceBeforeRetrieval ==
  /\ cur.check <= 1
  /\ (cur.click + cur.retrieve + cur.write > 0 => cur.check = 1)
  /\ (pc = "next" => cur.check = 1)
  /\ (cur.exists = "true" =>
        /\ cur.skipped = 1 /\ cur.uploaded = 0 /\ cur.failed = 0
        /\ cur.retrieve = 0 /\ cur.write = 0)

\* C2: when the store query fails, fileExists answers false: the candidate is
\* not skipped and goes to the step a new document goes to, and the failed query
\* by itself neither increments `failed` nor ends the run.
Thm_C2_FailedQueryProceeds ==
  cur.exists = "error" =>
    /\ cur.check = 1
    /\ cur.skipped = 0
    /\ exitCode = "none"
    /\ (cur.click = 0 /\ cur.retrieve = 0 /\ cur.write = 0 /\ cur.failed = 0
          => pc = AfterCheck(variant))
    /\ (pc = AfterCheck(variant) => cur.failed = 0 /\ cur.retrieve = 0)

Wit_C2_FailedQueryThenUploaded ==
  /\ cur.exists = "error"
  /\ cur.retrieve = 1 /\ cur.uploaded = 1
  /\ \E k \in DOMAIN before : before[k].name = fileName

\* C3: no error met while a candidate is processed ends the run: a script that
\* has entered its loop exits only after the loop has taken every candidate.
CE_C3_NoCandidateErrorAborts ==
  (pc = "done" /\ i >= 1) => i > Len(items)

\* C4: a candidate whose payload is under the size threshold is counted failed
\* and never written to the store; with an empty store, the candidates I then
\* II, a 2000-byte payload for I and a 500-byte payload for II, the counters are
\* {uploaded:1, skipped:0, failed:1} once II is done and the store holds one
\* document, named Section_I.pdf.
CE_C4_UndersizedNeverStored ==
  /\ \A k \in (Len(before) + 1)..Len(files) : files[k].size >= MinPdfLength
  /\ (cur.retrieve = 1 /\ cur.payload \in 0..(MinPdfLength - 1)) =>
        /\ cur.write = 0 /\ cur.uploaded = 0
        /\ (pc = "next" => cur.failed >= 1)
  /\ ( /\ pc = "next" /\ i = 2
       /\ before = <<>>
       /\ IsSection(items[1], sI) /\ IsSection(items[2], sII)
       /\ Len(files) >= 1 /\ files[1].size = 2000
       /\ cur.payload = 500 ) =>
        /\ uploaded = 1 /\ skipped = 0 /\ failed = 1
        /\ Len(files) = 1
        /\ files[1].name = sSectionPrefix \o sI \o sDotPdf

\* C5: the interception script takes a payload as undersized exactly when it is
\* below 1000 bytes, on the buffered-URL path and on the tab path: a candidate
\* whose one retrieval gave 1000 bytes is uploaded, one whose retrieval gave 999
\* bytes is counted failed and not uploaded.
CE_C5_ThresholdBelow1000 ==
  (variant = "intercept" /\ cur.retrieve = 1 /\ pc \in {"nav", "next"}) =>
    /\ (cur.payload = 1000 => cur.write = 1)
    /\ (cur.payload = 999 => cur.write = 0 /\ cur.failed >= 1)

-----------------------------------------------------------------------------
(* extractText (src/scanner.js 389-398) *)

\* The literal starts at position p of s, letter case ignored (the i flag)
startsWithAt(s, p, literal) ==
  /\ p + Len(literal) - 1 <= Len(s)
  /\ toLowerCase(SubSeq(s, p, p + Len(literal) - 1)) = literal

\* The first position from p on that holds the character c, 0 when none does
firstCharFrom(s, p, c) ==
  IF \E q \in p..Len(s) : s[q] = c
  THEN CHOOSE q \in p..Len(s) : s[q] = c /\ \A m \in p..(q - 1) : s[m] # c
  ELSE 0

\* The first position from p on where the literal starts, 0 when there is none
firstLiteralFrom(s, p, literal) ==
  IF \E q \in p..Len(s) : startsWithAt(s, q, literal)
  THEN CHOOSE q \in p..Len(s) :
         /\ startsWithAt(s, q, literal)
         /\ \A m \in p..(q - 1) : ~startsWithAt(s, m, literal)
  ELSE 0

\* Where a match of /<name[^>]*>[\s\S]*?<\/name>/i that starts at p ends, 0 when
\* none starts there: the opening tag runs to the first '>', the block to the
\* first closing tag after it
blockEndAt(s, p, name) ==
  IF ~startsWithAt(s, p, <<"<">> \o name) THEN 0
  ELSE LET q == firstCharFrom(s, p + 1 + Len(name), ">") IN
       IF q = 0 THEN 0
       ELSE LET closing == <<"<", "/">> \o name \o <<">">>
                r == firstLiteralFrom(s, q + 1, closing)
            IN  IF r = 0 THEN 0 ELSE r + Len(closing) - 1

RECURSIVE removeBlocks(_, _, _)
\* s.replace(/<name[^>]*>[\s\S]*?<\/name>/gi, '') from position p on
removeBlocks(s, p, name) ==
  IF p > Len(s) THEN <<>>
  ELSE LET e == blockEndAt(s, p, name) IN
       IF e # 0 THEN removeBlocks(s, e + 1, name)
       ELSE <<s[p]>> \o removeBlocks(s, p + 1, name)

\* Where a match of /<[^>]+>/ that starts at p ends, 0 when none starts there
tagEndAt(s, p) ==
  IF s[p] # "<" THEN 0
  ELSE LET q == firstCharFrom(s, p + 1, ">") IN
       IF q > p + 1 THEN q ELSE 0

RECURSIVE replaceTags(_, _)
\* s.replace(/<[^>]+>/g, ' ') from position p on
replaceTags(s, p) ==
  IF p > Len(s) THEN <<>>
  ELSE LET e == tagEndAt(s, p) IN
       IF e # 0 THEN <<" ">> \o replaceTags(s, e + 1)
       ELSE <<s[p]>> \o replaceTags(s, p + 1)

RECURSIVE collapseWhitespace(_)
\* s.replace(/\s+/g, ' ')
collapseWhitespace(s) ==
  IF s = <<>> THEN <<>>
  ELSE IF Head(s) \in Whitespace
       THEN <<" ">> \o collapseWhitespace(trimStart(s))
       ELSE <<Head(s)>> \o collapseWhitespace(Tail(s))

sScript == <<"s","c","r","i","p","t">>
sStyle  == <<"s","t","y","l","e">>

\* extractText with the tags replaced after the whitespace is cleaned
extractText_TagsLast(html) ==
  LET noScript == removeBlocks(html, 1, sScript)
      noStyle  == removeBlocks(noScript, 1, sStyle)
  IN  replaceTags(trim(collapseWhitespace(noStyle)), 1)

\* extractText (lines 389-398)
extractText(html) ==
  LET noScript == removeBlocks(html, 1, sScript)              \* line 391
      noStyle  == removeBlocks(noScript, 1, sStyle)           \* line 392
      noTags   == replaceTags(noStyle, 1)                     \* line 394
  IN  trim(collapseWhitespace(noTags))                        \* line 396

\* The entities a page may hold, between them a numeric character reference
entity ==
  [amp |-> <<"&","a","m","p",";">>, lt |-> <<"&","l","t",";">>, gt |-> <<"&","g","t",";">>,
   quot |-> <<"&","q","u","o","t",";">>, nbsp |-> <<"&","n","b","s","p",";">>,
   numericA |-> <<"&","#","6","5",";">>]

\* The pieces the checked markups are made of
HtmlChunks ==
  << <<"<","s","c","r","i","p","t",">">>, <<"<","S","C","R","I","P","T"," ","x",">">>,
     <<"<","/","s","c","r","i","p","t",">">>,
     <<"<","s","t","y","l","e",">">>, <<"<","/","s","t","y","l","e",">">>,
     <<"<","b",">">>, <<"<">>, <<">">>, <<"a">>, <<" ">>, <<"\n">>, entity.amp, entity.lt >>

MaxPieces == 3

RECURSIVE ChunkHtmls(_)
\* All concatenations of at most n pieces
ChunkHtmls(n) ==
  IF n = 0 THEN {<<>>}
  ELSE LET shorter == ChunkHtmls(n - 1) IN
       shorter \cup {s \o HtmlChunks[k] : s \in shorter, k \in DOMAIN HtmlChunks}

\* An entity between two letters, for each entity the page text may hold
EntityExamples == {<<"a">> \o entity[e] \o <<"a">> : e \in DOMAIN entity}

Htmls == ChunkHtmls(MaxPieces) \cup EntityExamples

InitText ==
  /\ RunIdle
  /\ fn = "extractText"
  /\ arg \in Htmls
  /\ res = <<>>
  /\ applied = FALSE

\* extractText(html)
ExtractText ==
  /\ fn = "extractText" /\ ~applied
  /\ res' = <<extractText(arg)>>
  /\ applied' = TRUE
  /\ UNCHANGED <<runVars, fn, arg>>

\* extractText applied to its own result
ExtractTextAgain ==
  /\ fn = "extractText" /\ applied /\ Len(res) = 1
  /\ res' = Append(res, extractText(res[1]))
  /\ UNCHANGED <<runVars, fn, arg, applied>>

NextText == ExtractText \/ ExtractTextAgain

SpecText == InitText /\ [][NextText]_vars

Extracted == fn = "extractText" /\ applied

NoMarkupLeft(text) ==
  \A p \in DOMAIN text :
    tagEndAt(text, p) = 0 /\ blockEndAt(text, p, sScript) = 0 /\ blockEndAt(text, p, sStyle) = 0

\* C12: extractText removes script and style blocks and every remaining tag,
\* replaces &nbsp; &amp; &lt; &gt; &quot; and numeric character references by
\* the characters they denote, and returns text without leading or trailing
\* whitespace and without two whitespace characters in a row.
CE_C12_StripsDecodesCollapses ==
  Extracted =>
    LET text == res[1] IN
    /\ NoMarkupLeft(text)
    /\ (text # <<>> => text[1] \notin Whitespace /\ text[Len(text)] \notin Whitespace)
    /\ \A p \in 1..(Len(text) - 1) : ~(text[p] \in Whitespace /\ text[p + 1] \in Whitespace)
    /\ (arg = <<"a">> \o entity.amp \o <<"a">> => text = <<"a", "&", "a">>)
    /\ (arg = <<"a">> \o entity.lt \o <<"a">> => text = <<"a", "<", "a">>)
    /\ (arg = <<"a">> \o entity.gt \o <<"a">> => text = <<"a", ">", "a">>)
    /\ (arg = <<"a">> \o entity.quot \o <<"a">> => text = <<"a", "\"", "a">>)
    /\ (arg = <<"a">> \o entity.nbsp \o <<"a">> => text \in {<<"a", " ", "a">>, <<"a", "nbsp", "a">>})
    /\ (arg = <<"a">> \o entity.numericA \o <<"a">> => text = <<"a", "A", "a">>)

-----------------------------------------------------------------------------
(* The run loops: exit status, RunSummary, browser, names, URL buffer *)

\* The loop of the run has taken every candidate
LoopDone == i > Len(items)

\* The script is the one whose candidate begins at `step`
BeginsAt(v) == IF v = "run" THEN "click" ELSE "check"

\* C13: the process exits with status 0 when the run completes, whatever
\* failed for the candidates and whether or not the RunSummary write succeeded,
\* and with a non-zero status on a top-level failure: a run that ends without
\* having entered its loop (the browser launch or the first navigation failed)
\* exits non-zero.
CE_C13_ExitStatus ==
  pc = "done" =>
    /\ (LoopDone /\ browser # "closefailed" => exitCode = 0)
    /\ (i = 0 => exitCode # 0)

\* C14: in every run, once the last candidate is counted exactly one RunSummary
\* write is attempted, it carries the final counters, and no candidate is
\* processed after it: a run that exits 0 after its loop has made one attempt.
CE_C14_OneSummaryAfterLoop ==
  /\ Len(logs) <= 1
  /\ (Len(logs) = 1 =>
        /\ pc \in {"exit", "done"}
        /\ logs[1].doc.uploaded = uploaded
        /\ logs[1].doc.skipped = skipped
        /\ logs[1].doc.failed = failed)
  /\ (pc = "done" /\ exitCode = 0 /\ LoopDone => Len(logs) = 1)

\* C15: on every exit path of a browser-driven run after the launch succeeded
\* (normal end, page creation or configuration failure, navigation failure,
\* exception during a candidate) browser.close() is called before the process
\* exits.
CE_C15_BrowserClosedBeforeExit ==
  (pc = "done" /\ browser # "none") => browser \in {"closed", "closefailed"}

\* C16: the names of the `files` records stay pairwise distinct through a run in
\* which no existence check fails: a step that adds a record whose name the
\* collection already holds is the step of a candidate whose check failed.
CE_C16_NamesStayDistinct ==
  [][(Len(files') > Len(files)
        /\ \E k \in DOMAIN files : files[k].name = files'[Len(files')].name)
      => cur.exists = "error"]_vars

CE_C18_AtOriginWhenCandidateBegins ==
  (variant # "manifest" /\ pc = BeginsAt(variant) /\ i >= 1 /\ cur.click = 0) =>
    pageUrl = "origin"

-----------------------------------------------------------------------------
(* The chapter scans (src/scanner.js 401-422 and 441-623) *)

\* The scans run one after the other in main (lines 626-661); a scan is told by
\* `variant`. In a scan `uploaded` is the scan's `saved`, `failed` its `failed`
\* (scanImportTariff alone has one), `files` the records set in
\* `tariff_chapters`, in the order of the setDoc calls that succeeded, and `cur`
\* what the loop did for the page it took last.
ScanVariants == {"scanImportTariff", "scanByChapter", "scanKnownPages"}

\* html.length < 1000 (line 475)
MinHtmlLength == 1000
\* content.length > 5000 (line 487)
MinImportContentLength == 5000
\* content.length > 2000 (line 525)
MinChapterContentLength == 2000

\* The pages of a scan the model takes: chapterIds (lines 446-461), 1..99
\* (line 511), pages (lines 592-597)
MaxPages == 2

\* What fetchUrl (lines 351-366) resolves with, by what the scans use of it: the
\* length of the html, the length of extractText(html), which no replace of
\* extractText makes longer than the html, and the number of codes that
\* parseHSCodes(html) returns
FetchedPages ==
  {p \in [html : {999, 1000, 6000, 1000000},
          content : {400, 1999, 2000, 2001, 5000, 5001, 900001},
          hsCodes : {0, 1, 1001}] :
     p.content <= p.html}

\* content.substring(0, 900000) (line 409)
MaxContentLength == 900000

\* String(chapterId).padStart(2, '0') (line 403)
padStart2(n) == IF n < 10 THEN "0" \o ToString(n) ELSE ToString(n)

\* The record saveChapterData gives to setDoc (lines 405-414) and the key it
\* sets it under (line 403; the source is 'import' in every call), by the length of
\* its content, the number of entries of its hsCodes list, which is the list
\* parseHSCodes returned, and its hsCodeCount
ChapterDoc(chapterId, chapterName, page) ==
  [docId |-> "import_chapter_" \o padStart2(chapterId),
   chapterId |-> chapterId,
   chapterName |-> chapterName,
   content |-> IF page.content > MaxContentLength THEN MaxContentLength ELSE page.content,
   hsCodes |-> page.hsCodes,
   hsCodeCount |-> page.hsCodes]

\* saveChapterData (lines 401-422): setDoc and true, or the exception caught and
\* false; the collection afterwards
saveChapterData(store, chapterId, chapterName, page, setDocFails) ==
  [saved |-> ~setDocFails,
   store |-> IF setDocFails THEN store
             ELSE Append(store, ChapterDoc(chapterId, chapterName, page))]

\* pages of scanKnownPages (lines 592-597); the names are Hebrew, 'pereq' being
\* the word the pattern of line 484 looks for
pages ==
  << [id |-> 15982, name |-> "pereq 20 - takhshirim mi-yeraqot u-ferot"],
     [id |-> 16904, name |-> "heleq IV - takhshire mazon"],
     [id |-> 18359, name |-> "pereq 87 - rekhev"],
     [id |-> 8901,  name |-> "pereq 85 - hashmal"] >>

\* chapterIds of scanImportTariff (lines 446-461): its first entry, and its
\* last seven, the 'Known working IDs'
chapterIds == <<1, 15982, 16904, 18359, 25355, 8901, 10937, 3953>>

\* The chapter ids a scan goes through, cut to MaxPages
ScanIds(f) ==
  CASE f = "scanImportTariff" -> SubSeq(chapterIds, 1, MaxPages)
    [] f = "scanByChapter"    -> [ch \in 1..MaxPages |-> ch]
    [] f = "scanKnownPages"   -> [k \in 1..MaxPages |-> pages[k].id]

\* content.match(/pereq\s+(\d+)\s*-\s*([^;]+)/) (line 484): null, or the text
\* from the word to the next semicolon, which may be a curated name or not
ChapterMatches ==
  {"null", pages[1].name, "pereq 20 - takhshirim mi-yeraqot u-ferot she-lo forto"}

\* chapterMatch ? chapterMatch[0] : 'Chapter ' + id (line 485)
importChapterName(chapterMatch, id) ==
  IF chapterMatch = "null" THEN "Chapter " \o ToString(id) ELSE chapterMatch

\* main (lines 626-661) runs scanKnownPages, scanImportTariff, scanExportTariff
\* and scanAutonomy in this order and adds up what they return. Under main `pc`
\* is the scan that runs and `uploaded` is totalSaved, the `saved` of the scan
\* that runs added as it grows; the pages fetched are these two
MainPages == {p \in FetchedPages : p.html = 6000 /\ p.hsCodes = 0 /\ p.content \in {400, 5001}}

ScanPages == IF variant = "main" THEN MainPages ELSE FetchedPages

\* The scan f is running, by itself or under main
Scanning(f) == (variant = f /\ pc = "scan") \/ (variant = "main" /\ pc = f)

\* What main calls after a scan
AfterScan(f) ==
  CASE f = "scanKnownPages"   -> "scanImportTariff"
    [] f = "scanImportTariff" -> "scanExportTariff"
    [] f = "scanExportTariff" -> "scanAutonomy"
    [] f = "scanAutonomy"     -> "log"

InitScan ==
  /\ PureIdle
  /\ variant \in ScanVariants
  /\ items = <<>> /\ before = <<>> /\ files = <<>>
  /\ pc = "scan"
  /\ i = 1
  /\ uploaded = 0 /\ skipped = 0 /\ failed = 0
  /\ buf = NullBuffer
  /\ cur = NoEvents
  /\ exitCode = "none"
  /\ logs = <<>>
  /\ browser = "none" /\ pageUrl = "origin" /\ pdfUrls = <<>> /\ pdfUrl = "none" /\ tabs = <<>>
  /\ scanIdx = 0 /\ found = FALSE
  /\ dir = {}

\* The for statement of a scan: the next page, or the scan returns
ScanLoop(f) ==
  IF i < Len(ScanIds(f)) THEN i' = i + 1 /\ pc' = pc
  ELSE IF variant = "main" THEN i' = 1 /\ pc' = AfterScan(f)
  ELSE i' = i + 1 /\ pc' = "done"

ScanUnchanged == UNCHANGED <<skipped, buf, exitCode, logs, browserVars, fixedVars>>

\* fetchUrl rejected: what the catch block of the scan counts; the delay, the
\* last statement of the try block, is not reached
FetchRejected(counted) ==
  /\ cur' = [NoEvents EXCEPT !.retrieve = 1, !.failed = counted]
  /\ failed' = failed + counted
  /\ UNCHANGED <<uploaded, files>>

\* No write for the page: after `continue` (line 477) the next pass starts at
\* once, a page the length test turns down goes through the delay
PageNotSaved(page, delay) ==
  /\ cur' = [NoEvents EXCEPT !.retrieve = 1, !.payload = page.content, !.delay = delay]
  /\ UNCHANGED <<uploaded, failed, files>>

\* `await saveChapterData(...); saved++;` (lines 488-489, 526-527, 612-613):
\* the value saveChapterData returns is not looked at; the delay follows
\* (lines 493, 530, 615)
PageSaved(chapterId, chapterName, page) ==
  \E setDocFails \in BOOLEAN :
    /\ files' = saveChapterData(files, chapterId, chapterName, page, setDocFails).store
    /\ uploaded' = uploaded + 1
    /\ cur' = [NoEvents EXCEPT !.retrieve = 1, !.payload = page.content,
                               !.write = 1, !.uploaded = 1, !.delay = 1]
    /\ UNCHANGED failed

\* One pass of the loop of scanImportTariff (lines 466-499)
scanImportTariff ==
  /\ Scanning("scanImportTariff")
  /\ LET id == ScanIds("scanImportTariff")[i] IN
     \/ FetchRejected(1)
     \/ \E page \in ScanPages :
          IF page.html < MinHtmlLength
          THEN PageNotSaved(page, 0)                          \* 'Empty response, skipping'
          ELSE IF page.hsCodes > 0 \/ page.content > MinImportContentLength
          THEN \E chapterMatch \in ChapterMatches :
                 PageSaved(id, importChapterName(chapterMatch, id), page)
          ELSE PageNotSaved(page, 1)
  /\ ScanLoop("scanImportTariff")
  /\ ScanUnchanged

\* One pass of the loop of scanByChapter (lines 511-535)
scanByChapter ==
  /\ Scanning("scanByChapter")
  /\ LET ch == ScanIds("scanByChapter")[i] IN
     \/ FetchRejected(0)
     \/ \E page \in ScanPages :
          IF page.content > MinChapterContentLength
          THEN PageSaved(ch, "pereq " \o padStart2(ch), page)
          ELSE PageNotSaved(page, 1)
  /\ ScanLoop("scanByChapter")
  /\ ScanUnchanged

\* One pass of the loop of scanKnownPages (lines 601-620)
scanKnownPages ==
  /\ Scanning("scanKnownPages")
  /\ \/ FetchRejected(0)
     \/ \E page \in ScanPages : PageSaved(pages[i].id, pages[i].name, page)
  /\ ScanLoop("scanKnownPages")
  /\ ScanUnchanged

NextScan == scanImportTariff \/ scanByChapter \/ scanKnownPages

SpecScan == InitScan /\ [][NextScan]_vars

-----------------------------------------------------------------------------
(* main (src/scanner.js 626-661) and the two scans of one page *)

\* scanExportTariff (lines 541-562) and scanAutonomy (lines 565-586): the page
\* is fetched and set under the key of the source; 1 is returned, or 0 from
\* the catch block when the fetch or the setDoc failed
scanMainPage(source) ==
  /\ \/ /\ cur' = [NoEvents EXCEPT !.retrieve = 1]            \* fetchUrl rejected
        /\ UNCHANGED <<uploaded, files>>
     \/ \E page \in ScanPages :
          \/ /\ cur' = [NoEvents EXCEPT !.retrieve = 1, !.payload = page.content, !.write = 1]
             /\ UNCHANGED <<uploaded, files>>                  \* setDoc rejected
          \/ /\ files' = Append(files,
                              [docId |-> source \o "_main",
                               content |-> IF page.content > MaxContentLength
                                           THEN MaxContentLength ELSE page.content])
             /\ uploaded' = uploaded + 1
             /\ cur' = [NoEvents EXCEPT !.retrieve = 1, !.payload = page.content,
                                        !.write = 1, !.uploaded = 1]
  /\ UNCHANGED failed

scanExportTariff ==
  /\ Scanning("scanExportTariff")
  /\ scanMainPage("export")
  /\ i' = 1 /\ pc' = AfterScan("scanExportTariff")
  /\ ScanUnchanged

scanAutonomy ==
  /\ Scanning("scanAutonomy")
  /\ scanMainPage("autonomy")
  /\ i' = 1 /\ pc' = AfterScan("scanAutonomy")
  /\ ScanUnchanged

\* lines 652-660 and 663-665: the scan log is added, its failure swallowed, and
\* main resolves: process.exit(0)
main ==
  /\ variant = "main" /\ pc = "log"
  /\ \E storeFails \in BOOLEAN :
       logs' = Append(logs, SummaryWrite([totalSaved |-> uploaded, status |-> "complete"],
                                         ~storeFails))
  /\ exitCode' = 0
  /\ pc' = "done"
  /\ UNCHANGED <<i, uploaded, skipped, failed, files, buf, cur, browserVars, fixedVars>>

InitMain ==
  /\ PureIdle
  /\ variant = "main"
  /\ items = <<>> /\ before = <<>> /\ files = <<>>
  /\ pc = "scanKnownPages"
  /\ i = 1
  /\ uploaded = 0 /\ skipped = 0 /\ failed = 0
  /\ buf = NullBuffer
  /\ cur = NoEvents
  /\ exitCode = "none"
  /\ logs = <<>>
  /\ browser = "none" /\ pageUrl = "origin" /\ pdfUrls = <<>> /\ pdfUrl = "none" /\ tabs = <<>>
  /\ scanIdx = 0 /\ found = FALSE
  /\ dir = {}

NextMain == scanKnownPages \/ scanImportTariff \/ scanExportTariff \/ scanAutonomy \/ main

SpecMain == InitMain /\ [][NextMain]_vars

\* The length the text of a page must exceed in the scan, for the scans that test it
minContentLength(v) ==
  IF v = "scanImportTariff" THEN MinImportContentLength ELSE MinChapterContentLength

\* C19: a chapter is counted as saved only if its store write succeeded: when
\* the write fails the page is counted as failed and `saved` is not incremented.
CE_C19_SavedOnlyIfStored ==
  [][(cur'.write = 1 /\ files' = files) => (uploaded' = uploaded /\ failed' = failed + 1)]_vars

\* C20: in scanImportTariff and scanByChapter a fetched page is written as a
\* chapter record only if its extracted text is longer than the scan's minimum
\* length, whatever codes it contains.
CE_C20_ShortTextNeverWritten ==
  variant \in {"scanImportTariff", "scanByChapter"} =>
    \A k \in DOMAIN files : files[k].content > minContentLength(variant)

\* C21: the length test of scanByChapter is inclusive: a page whose extracted
\* text is exactly 2000 characters long is saved, one whose text is 1999
\* characters long is not.
CE_C21_ThresholdInclusive ==
  (variant = "scanByChapter" /\ cur.retrieve = 1) =>
    /\ (cur.payload = MinChapterContentLength => cur.write = 1)
    /\ (cur.payload = MinChapterContentLength - 1 => cur.write = 0)

\* C22: between two consecutive probes of a chapter scan the delay elapses,
\* whatever came of the earlier probe: page saved, page turned down as empty or
\* too short, or fetch failed.
CE_C22_DelayBetweenProbes ==
  (variant \in ScanVariants /\ pc = "scan" /\ cur.retrieve = 1) => cur.delay = 1

\* C23: in the DOM-scan script the file uploaded under a candidate's name was
\* downloaded as a result of that candidate's click: a download that candidate
\* k started and that finished after its wait expired is never taken and
\* uploaded under the name of candidate k+1.
CE_C23_FileOfOwnClick ==
  (variant = "domscan" /\ pc = "upload") => cur.clickOf = i

\* C24: every chapter record written has a content of at most 900,000
\* characters and an hsCodes list of at most 1000 entries, and its hsCodeCount
\* is the number of codes extracted, which the list may fall short of.
CE_C24_RecordTruncated ==
  variant \in ScanVariants =>
    \A k \in DOMAIN files :
      /\ files[k].content <= 900000
      /\ files[k].hsCodes <= 1000
      /\ files[k].hsCodeCount >= files[k].hsCodes


\* The position of the first occurrence of a code in a markup
firstSeenAt(html, code) ==
  CHOOSE p \in 1..Len(html) :
    /\ SubSeq(html, p, p + Len(code) - 1) = code
    /\ \A q \in 1..(p - 1) : SubSeq(html, q, q + Len(code) - 1) # code

\* C25: parseHSCodes returns the codes in the order in which they first appear in
\* the markup, whatever their numeric values.
CE_C25_FirstSeenOrder ==
  Parsed =>
    \A j, k \in DOMAIN res :
      j < k => firstSeenAt(arg, res[j]) < firstSeenAt(arg, res[k])


\* Whether the ten characters of html from position p are a complete run of
\* digits: no digit directly before them, and after them either no digit or the
\* optional suffix of a slash and one digit
standsAlone(html, p) ==
  /\ p >= 1 /\ p + 9 <= Len(html)
  /\ \A q \in p..(p + 9) : IsDigit(html[q])
  /\ (p > 1 => ~IsDigit(html[p - 1]))
  /\ (p + 10 <= Len(html) => ~IsDigit(html[p + 10]))

\* C30: every code parseHSCodes returns is ten digits that stand in the markup
\* as a complete run of digits, so that a run of more than ten digits gives no code.
CE_C30_CompleteDigitRuns ==
  Parsed =>
    \A k \in DOMAIN res :
      /\ Len(res[k]) = 10
      /\ \E p \in 1..Len(arg) : standsAlone(arg, p) /\ SubSeq(arg, p, p + 9) = res[k]


-----------------------------------------------------------------------------
(* The Roman-numeral pattern of the DOM scan (src/scanner.js 148) *)

\* The character c, n times
repeated(c, n) == [k \in 1..n |-> c]

\* /^I{1,3}$|^IV$|^V$|^VI{1,3}$|^IX$|^X{1,3}$|^XI{1,3}$|^XIV$|^XV$|^XVI{1,3}$|^XIX$|^XX{1,2}$|^XXI{1,2}$/.test(text),
\* one disjunct for each alternative, in the order of the pattern
isDownloadLink(text) ==
  \/ \E n \in 1..3 : text = repeated("I", n)
  \/ text = <<"I","V">>
  \/ text = <<"V">>
  \/ \E n \in 1..3 : text = <<"V">> \o repeated("I", n)
  \/ text = <<"I","X">>
  \/ \E n \in 1..3 : text = repeated("X", n)
  \/ \E n \in 1..3 : text = <<"X">> \o repeated("I", n)
  \/ text = <<"X","I","V">>
  \/ text = <<"X","V">>
  \/ \E n \in 1..3 : text = <<"X","V">> \o repeated("I", n)
  \/ text = <<"X","I","X">>
  \/ \E n \in 1..2 : text = <<"X">> \o repeated("X", n)
  \/ \E n \in 1..2 : text = <<"X","X">> \o repeated("I", n)

MaxNumeralLen == 5

\* The texts of at most MaxNumeralLen letters I, V and X
NumeralTexts ==
  UNION {[1..n -> {"I", "V", "X"}] : n \in 0..MaxNumeralLen}

InitRecognize ==
  /\ RunIdle
  /\ fn = "isDownloadLink"
  /\ arg \in NumeralTexts
  /\ res = "none"
  /\ applied = FALSE

Recognize ==
  /\ fn = "isDownloadLink" /\ ~applied
  /\ res' = isDownloadLink(arg)
  /\ applied' = TRUE
  /\ UNCHANGED <<runVars, fn, arg>>

NextRecognize == Recognize

SpecRecognize == InitRecognize /\ [][NextRecognize]_vars

\* The Roman numeral of a number from 1 to 39: an X for each ten, then the units
toRoman(n) ==
  repeated("X", n \div 10)
    \o << <<>>, <<"I">>, <<"I","I">>, <<"I","I","I">>, <<"I","V">>, <<"V">>,
          <<"V","I">>, <<"V","I","I">>, <<"V","I","I","I">>, <<"I","X">> >>[(n % 10) + 1]

\* C29: the pattern accepts a text of letters I, V and X exactly when the text is
\* the Roman numeral of a number from 1 to 22.
CE_C29_ExactlySectionNumerals ==
  (fn = "isDownloadLink" /\ applied) =>
    (res <=> \E n \in 1..22 : arg = toRoman(n))


\* C26: when a script that keeps the three run counters is done with a candidate,
\* exactly one of them was incremented for it, once, and uploaded + skipped +
\* failed is the number of candidates processed.
CE_C26_OneCountPerCandidate ==
  (variant \in {"manifest", "domscan", "intercept"} /\ pc = "next") =>
    /\ cur.uploaded + cur.skipped + cur.failed = 1
    /\ uploaded + skipped + failed = i


\* C27: the buffer run uploads as Section_<item>.pdf is the body of a response
\* observed after the reset of pdfBuffer for that item, never of a response of
\* an earlier item whose body read ended after the reset.
CE_C27_BufferOfOwnItem ==
  (variant = "run" /\ cur.write = 1) => cur.clickOf = i


\* C28: every call of downloadFile is settled in the end, resolved or rejected,
\* whatever the servers do: redirects without end, a redirect without a Location
\* header, no answer at all within the 60 s of the timeout option.
CE_C28_AlwaysSettled ==
  Downloaded => res.state \in {"resolved", "rejected"}


\* The keys main set documents under
KeysWritten == {files[k].docId : k \in DOMAIN files}

\* C31: in one execution of main each key of `tariff_chapters` is written at
\* most once, so that when main ends the record of every page of scanKnownPages
\* carries its curated name and totalSaved is the number of the documents written.
CE_C31_EachKeyWrittenOnce ==
  variant = "main" =>
    /\ \A j, k \in DOMAIN files : files[j].docId = files[k].docId => j = k
    /\ pc = "done" =>
         /\ \A n \in 1..MaxPages, k \in DOMAIN files :
              files[k].docId = "import_chapter_" \o padStart2(pages[n].id)
                => files[k].chapterName = pages[n].name
         /\ uploaded = Cardinality(KeysWritten)

=============================================================================
